---- MODULE Spec2Model ----
(***************************************************************************)
(* A model of src/src/extension.ts (vscode-meson): the activate() function *)
(* and the command handlers it registers.                                  *)
(*                                                                         *)
(* activate() is one long asynchronous function.  It is modelled as a      *)
(* sequence of steps, one per stretch of code between two real suspension  *)
(* points (a prompt, a quick pick, a call into an asynchronous             *)
(* collaborator).  Its sections are modelled each under its own            *)
(* specification, because none reads what another writes:                  *)
(*                                                                         *)
(*   SpecLsp      lines 263-332: the download-consent protocol, the        *)
(*                language client's start sequence and the                 *)
(*                mesonbuild.restartLanguageServer command;                *)
(*   SpecResolve  lines 42-65 and 204-261: the choice of the authoritative *)
(*                meson.build, the configure-on-open prompt, the           *)
(*                configuration picker, and window reloads;                *)
(*   SpecWatch    lines 102-138: the task provider's cache, the handler of *)
(*                build.ninja changes and the configuration listener;      *)
(*   SpecProject  lines 77-85: the mesonbuild.hasProject context flag;     *)
(*   SpecCommands lines 162-202 and 334-376: the task commands and the     *)
(*                task picker.                                             *)
(*                                                                         *)
(* JavaScript values: true/false/"ask" settings are the strings "true",    *)
(* "false", "ask"; undefined is "undefined" (flags) or NoPath (paths);     *)
(* null is NoClient.                                                       *)
(***************************************************************************)
EXTENDS Integers, Sequences, FiniteSets

VARIABLES
  \* ---- language server section (lines 263-332)
  downloadSetting,        \* the persisted mesonbuild.downloadLanguageServer
  downloadLanguageServer, \* the const read once at line 263
  server,                 \* the const read at line 264
  client,                 \* `let client` of line 296: NoClient or a client id
  clients,                \* for each client ever constructed, the calls issued on it
  pc,                     \* position of each caller: 0 is activate, i > 0 a command run
  consent,                \* for each caller, its run of shouldDownload
  made,                   \* for each caller, the client its construction yielded
  settingWrites,          \* the values written to downloadSetting, in order
  lintersActive,          \* activateLinters was called (line 313)
  formattersActive,       \* activateFormatters was called (line 314)
  configSubscribed,       \* the listener of lines 299-303 is registered
  configEvents,           \* configuration-change events delivered so far
  \* ---- configuration section (lines 42-65, 204-261)
  wsMesonFile,            \* workspaceState "mesonbuild.mesonFile"
  wsBuildDir,             \* workspaceState "mesonbuild.buildDir"
  wsSourceDir,            \* workspaceState "mesonbuild.sourceDir"
  wsConfigurationChosen,  \* workspaceState "mesonbuild.configurationChosen"
  configureOnOpenSetting, \* the persisted mesonbuild.configureOnOpen
  mesonFiles,             \* result of rootMesonFiles() in this session
  actPc,                  \* position of activate in lines 42-261
  configurationChosen,    \* `let configurationChosen` of line 47
  mesonFile,              \* const of line 58
  sourceDir,              \* const of line 59
  buildDir,               \* const of line 60
  configured,             \* what checkMesonIsConfigured(buildDir) returned
  configureOnOpen,        \* `let configureOnOpen` of line 205
  configurePrompts,       \* times the prompt of line 214 was shown this session
  pickerItems,            \* the items passed to showQuickPick (line 243)
  pickerShown,            \* times the picker of line 243 was shown this session
  selection,              \* const selection of line 243
  reconfigureRuns,        \* runFirstTask("reconfigure") calls of line 256
  reloadRequests,         \* workbench.action.reloadWindow requests of line 251
  passSaved,              \* what line 48 read in this session
  passSavedChosen,        \* the persisted flag when line 48 ran
  picked,                 \* the file of the last pick that persisted the flag, while
                          \* no later pick has replaced it and the discovered set
                          \* has stayed the same
  pickedFrom,             \* the set of discovered files of the session of that pick
  passes,                 \* resolution passes since that pick
  \* ---- task cache and watchers (lines 102-138)
  mesonTasks,             \* `let mesonTasks` of line 102: NoTasks or a computation
  computations,           \* for each getMesonTasks call, the invalidations before it
  queries,                \* the provideTasks calls: invalidations before, list served
  runs,                   \* the runs of changeHandler
  configLog,              \* what the listener of lines 130-137 did for each event
  watchReloads,           \* workbench.action.reloadWindow requests of line 133
  \* ---- hasProject (lines 77-85)
  projectFiles,           \* the number of meson.build files in the workspace
  searches,               \* the runs of updateHasProject
  hasProject,             \* the context key mesonbuild.hasProject
  \* ---- task commands (lines 162-202, 334-376)
  cmds                    \* the runs of the task commands

lspVars == <<downloadSetting, downloadLanguageServer, server, client, clients, pc,
             consent, made, settingWrites, lintersActive, formattersActive,
             configSubscribed, configEvents>>

resolveVars == <<wsMesonFile, wsBuildDir, wsSourceDir, wsConfigurationChosen,
                 configureOnOpenSetting, mesonFiles, actPc, configurationChosen,
                 mesonFile, sourceDir, buildDir, configured, configureOnOpen,
                 configurePrompts, pickerItems, pickerShown, selection,
                 reconfigureRuns, reloadRequests, passSaved, passSavedChosen,
                 picked, pickedFrom, passes>>

watchVars == <<mesonTasks, computations, queries, runs, configLog, watchReloads>>

projectVars == <<projectFiles, searches, hasProject>>

commandVars == <<cmds>>

vars == <<lspVars, resolveVars, watchVars, projectVars, commandVars>>

\* What the steps of one section leave alone.
exceptLsp == <<resolveVars, watchVars, projectVars, commandVars>>

exceptResolve == <<lspVars, watchVars, projectVars, commandVars>>

exceptWatch == <<lspVars, resolveVars, projectVars, commandVars>>

exceptProject == <<lspVars, resolveVars, watchVars, commandVars>>

exceptCommands == <<lspVars, resolveVars, watchVars, projectVars>>

\* ------------------------------------------------------------------ bounds

\* Invocations of mesonbuild.restartLanguageServer in one session.
MaxInvocations == 2

\* Configuration-change events delivered to the listener of lines 299-303.
MaxConfigEvents == 1

\* ------------------------------------------------------------- helpers

Range(s) == {s[i] : i \in 1..Len(s)}

\* The first position of x in s, 0 when there is none.
FirstIndex(s, x) ==
  IF x \in Range(s) THEN CHOOSE i \in 1..Len(s) : s[i] = x /\ \A j \in 1..(i - 1) : s[j] # x
  ELSE 0


\* ============================================================================
\* Language server section: lines 263-332
\* ============================================================================

\* `null`, the value of `client` when there is no language client.
NoClient == 0

\* The language client started by activate: lines 297 and 311.
RichServer == "Swift-MesonLSP"

\* Values of the mesonbuild.languageServer setting: the rich server, another
\* identifier, and the setting's no-server value.
Servers == {RichServer, "other", "null"}

\* boolean | "ask": the type of the setting at line 265.
ConsentSettings == {"true", "false", "ask"}

\* Callers of shouldDownload and createLanguageServerClient: activate (0) and
\* the runs of the restartLanguageServer handler.
Invocations == 1..MaxInvocations

Callers == 0..MaxInvocations

\* What showInformationMessage (line 274) resolves to: one of the three
\* options, or undefined when the notification is closed.
PromptResponses == {"Yes", "Not this time", "Never", "dismissed"}

NoRun == [arg |-> "none", persisted |-> "none", response |-> "none",
          result |-> "none", wrote |-> <<>>]

\* createLanguageServerClient(server, download, ctx): Promise<client | null>.
\* Its code is in lsp/common, outside src/: it yields no client for the
\* no-server identifier, and otherwise a client, no client, or a rejection.
CreateOutcomes(srv, download) ==
  IF srv = "null" THEN {"null"} ELSE {"client", "null", "throw"}

\* The value shouldDownload returns after the prompt: lines 279-293.
ConsentResult(response) ==
  CASE response = "Yes" -> "true"
    [] response = "Never" -> "false"
    [] response = "Not this time" -> "false"
    [] OTHER -> "false"

ConsentWriteOnDismiss(response) ==
  CASE response = "Yes" -> <<"true">>
    [] response = "Never" -> <<"false">>
    [] OTHER -> <<"ask">>

\* The values shouldDownload passes to extensionConfigurationSet after the
\* prompt (lines 281, 285, 289): none when the prompt was closed.
ConsentWrite(response) ==
  CASE response = "Yes" -> <<"true">>
    [] response = "Never" -> <<"false">>
    [] response = "Not this time" -> <<"ask">>
    [] OTHER -> <<>>

\* shouldDownload(arg) up to its first suspension (lines 265-277): a boolean
\* is returned at once, "ask" shows the prompt.
ShouldDownloadCall(c, arg) ==
  /\ consent' = [consent EXCEPT ![c] =
                   [arg |-> arg, persisted |-> downloadSetting,
                    response |-> IF arg = "ask" THEN "pending" ELSE "none",
                    result |-> IF arg = "ask" THEN "pending" ELSE arg,
                    wrote |-> <<>>]]
  /\ pc' = [pc EXCEPT ![c] = IF arg = "ask" THEN "prompt" ELSE "create"]

\* The prompt of line 274 resolves; shouldDownload returns (lines 279-293) and
\* the caller goes on to call createLanguageServerClient.
PromptAnswered(c, response) ==
  /\ pc[c] = "prompt"
  /\ consent' = [consent EXCEPT ![c].response = response,
                                ![c].result = ConsentResult(response),
                                ![c].wrote = ConsentWrite(response)]
  /\ settingWrites' = settingWrites \o ConsentWrite(response)
  /\ downloadSetting' = IF ConsentWrite(response) = <<>> THEN downloadSetting
                        ELSE ConsentWrite(response)[1]
  /\ pc' = [pc EXCEPT ![c] = "create"]
  /\ UNCHANGED <<downloadLanguageServer, server, client, clients, made,
                 lintersActive, formattersActive, configSubscribed, configEvents>>
  /\ UNCHANGED exceptLsp

\* Lines 263-264 and the call of shouldDownload in line 296.
ActivateReadSettings ==
  /\ pc[0] = "init"
  /\ downloadLanguageServer' = downloadSetting
  /\ ShouldDownloadCall(0, downloadSetting)
  /\ UNCHANGED <<downloadSetting, server, client, clients, made, settingWrites,
                 lintersActive, formattersActive, configSubscribed, configEvents>>
  /\ UNCHANGED exceptLsp

RichClientActiveAnyServer(c, srv) == c # NoClient

\* The condition of line 297.
RichClientActive(c, srv) == c # NoClient /\ srv = RichServer

\* createLanguageServerClient of line 296 settles; lines 297-305 or 312-317.
ActivateCreateDone(outcome) ==
  /\ pc[0] = "create"
  /\ outcome \in CreateOutcomes(server, consent[0].result)
  /\ IF outcome = "throw"
     THEN /\ pc' = [pc EXCEPT ![0] = "failed"]
          /\ UNCHANGED <<client, clients, made, lintersActive, formattersActive,
                         configSubscribed>>
     ELSE LET new == IF outcome = "client" THEN Len(clients) + 1 ELSE NoClient
              log == IF RichClientActive(new, server) THEN <<"update">> ELSE <<>>
          IN /\ client' = new
             /\ made' = [made EXCEPT ![0] = new]
             /\ clients' = IF new = NoClient THEN clients ELSE Append(clients, log)
             /\ IF RichClientActive(new, server)
                THEN /\ configSubscribed' = TRUE
                     /\ pc' = [pc EXCEPT ![0] = "update"]
                     /\ UNCHANGED <<lintersActive, formattersActive>>
                ELSE /\ lintersActive' = TRUE
                     /\ formattersActive' = TRUE
                     /\ pc' = [pc EXCEPT ![0] = "registered"]
                     /\ UNCHANGED configSubscribed
  /\ UNCHANGED <<downloadSetting, downloadLanguageServer, server, consent,
                 settingWrites, configEvents>>
  /\ UNCHANGED exceptLsp

\* client.update of line 306 settles; lines 307-309.
ActivateUpdateDone ==
  /\ pc[0] = "update"
  /\ clients' = [clients EXCEPT ![client] = @ \o <<"start", "reloadConfig">>]
  /\ pc' = [pc EXCEPT ![0] = "reloadConfig"]
  /\ UNCHANGED <<downloadSetting, downloadLanguageServer, server, client, consent,
                 made, settingWrites, lintersActive, formattersActive,
                 configSubscribed, configEvents>>
  /\ UNCHANGED exceptLsp

\* client.reloadConfig of line 309 settles; lines 311 and 317-332.
ActivateReloadDone ==
  /\ pc[0] = "reloadConfig"
  /\ pc' = [pc EXCEPT ![0] = "registered"]
  /\ UNCHANGED <<downloadSetting, downloadLanguageServer, server, client, clients,
                 consent, made, settingWrites, lintersActive, formattersActive,
                 configSubscribed, configEvents>>
  /\ UNCHANGED exceptLsp

\* The listener of lines 299-303, for an event that affects mesonbuild.<server>.
ServerConfigChanged ==
  /\ configSubscribed
  /\ configEvents < MaxConfigEvents
  /\ configEvents' = configEvents + 1
  /\ clients' = IF client = NoClient THEN clients
                ELSE [clients EXCEPT ![client] = Append(@, "reloadConfig")]
  /\ UNCHANGED <<downloadSetting, downloadLanguageServer, server, client, pc,
                 consent, made, settingWrites, lintersActive, formattersActive,
                 configSubscribed>>
  /\ UNCHANGED exceptLsp

\* The host runs the handler of mesonbuild.restartLanguageServer: lines 319-320
\* up to the prompt or the construction, or lines 327-328.  Runs are numbered
\* in the order they begin.
RestartInvoked(i) ==
  /\ pc[0] = "registered"
  /\ pc[i] = "idle"
  /\ \A j \in 1..(i - 1) : pc[j] # "idle"
  /\ IF client = NoClient
     THEN /\ ShouldDownloadCall(i, downloadLanguageServer)
          /\ UNCHANGED clients
     ELSE /\ clients' = [clients EXCEPT ![client] = Append(@, "restart")]
          /\ pc' = [pc EXCEPT ![i] = "restart"]
          /\ UNCHANGED consent
  /\ UNCHANGED <<downloadSetting, downloadLanguageServer, server, client, made,
                 settingWrites, lintersActive, formattersActive, configSubscribed,
                 configEvents>>
  /\ UNCHANGED exceptLsp

\* createLanguageServerClient of line 320 settles; lines 320-324.
RestartCreateDone(i, outcome) ==
  /\ i \in Invocations
  /\ pc[i] = "create"
  /\ outcome \in CreateOutcomes(server, consent[i].result)
  /\ IF outcome = "throw"
     THEN /\ pc' = [pc EXCEPT ![i] = "failed"]
          /\ UNCHANGED <<client, clients, made>>
     ELSE LET new == IF outcome = "client" THEN Len(clients) + 1 ELSE NoClient
          IN /\ client' = new
             /\ made' = [made EXCEPT ![i] = new]
             /\ clients' = IF new = NoClient THEN clients
                           ELSE Append(clients, <<"start", "reloadConfig">>)
             /\ pc' = [pc EXCEPT ![i] = IF new = NoClient THEN "done" ELSE "reloadNew"]
  /\ UNCHANGED <<downloadSetting, downloadLanguageServer, server, consent,
                 settingWrites, lintersActive, formattersActive, configSubscribed,
                 configEvents>>
  /\ UNCHANGED exceptLsp

\* client.reloadConfig of line 324 or of line 329 settles: the handler returns.
RestartReloadDone(i) ==
  /\ i \in Invocations
  /\ pc[i] \in {"reloadNew", "reloadOld"}
  /\ pc' = [pc EXCEPT ![i] = "done"]
  /\ UNCHANGED <<downloadSetting, downloadLanguageServer, server, client, clients,
                 consent, made, settingWrites, lintersActive, formattersActive,
                 configSubscribed, configEvents>>
  /\ UNCHANGED exceptLsp

\* client.restart of line 328 settles; line 329 reads `client` again, and the
\* call throws a TypeError when it has become null in the meantime.
RestartRestartDone(i) ==
  /\ i \in Invocations
  /\ pc[i] = "restart"
  /\ IF client = NoClient
     THEN /\ pc' = [pc EXCEPT ![i] = "failed"]
          /\ UNCHANGED clients
     ELSE /\ clients' = [clients EXCEPT ![client] = Append(@, "reloadConfig")]
          /\ pc' = [pc EXCEPT ![i] = "reloadOld"]
  /\ UNCHANGED <<downloadSetting, downloadLanguageServer, server, client, consent,
                 made, settingWrites, lintersActive, formattersActive,
                 configSubscribed, configEvents>>
  /\ UNCHANGED exceptLsp

\* A client is live once start or restart has been issued on it; nothing in
\* the session disposes a client.
Started(k) == "start" \in Range(clients[k]) \/ "restart" \in Range(clients[k])

LiveClients == {k \in 1..Len(clients) : Started(k)}

\* ============================================================================
\* Configuration section: lines 42-65 and 204-261
\* ============================================================================

\* A path is a sequence of separators "/" and names.  `undefined` where a path
\* is expected (line 48, line 54) is the empty sequence.
NoPath == <<>>

\* vscode.workspace.workspaceFolders[0].uri.fsPath, line 41.
Root == <<"/", "w">>

\* The meson.build files a workspace may hold, all below Root.
AllFiles ==
  { Root \o <<"/", "meson.build">>,
    Root \o <<"/", "a", "/", "meson.build">>,
    Root \o <<"/", "b", "/", "meson.build">>,
    Root \o <<"/", "a", "/", "c", "/", "meson.build">> }

\* Sequences of n distinct files.
RECURSIVE Orderings(_, _)
Orderings(S, n) ==
  IF n = 0 THEN {<<>>}
  ELSE UNION { {<<f>> \o t : t \in Orderings(S \ {f}, n - 1)} : f \in S }

\* What rootMesonFiles() (line 42) may resolve to: no file, or up to n
\* distinct files in any discovery order.
Discoveries(n) == UNION { Orderings(AllFiles, k) : k \in 0..n }

\* The collation key of a path element: a separator sorts before a letter.
Rank(ch) ==
  CASE ch = "/" -> 1
    [] ch = "a" -> 2
    [] ch = "b" -> 3
    [] ch = "c" -> 4
    [] ch = "meson.build" -> 5
    [] OTHER -> 6

\* String.prototype.localeCompare (line 242): negative, zero or positive.
RECURSIVE localeCompare(_, _)
localeCompare(x, y) ==
  IF x = <<>> /\ y = <<>> THEN 0
  ELSE IF x = <<>> THEN -1
  ELSE IF y = <<>> THEN 1
  ELSE IF Rank(Head(x)) < Rank(Head(y)) THEN -1
  ELSE IF Rank(Head(x)) > Rank(Head(y)) THEN 1
  ELSE localeCompare(Tail(x), Tail(y))

\* The position of the last separator of a path.
LastSlash(p) == CHOOSE i \in 1..Len(p) : p[i] = "/" /\ \A j \in (i + 1)..Len(p) : p[j] # "/"

\* path.dirname (lines 23, 59).
dirname(p) == SubSeq(p, 1, LastSlash(p) - 1)

\* path.relative(from, to) (lines 23, 241) for a path `to` below `from`.
relative(from, to) == SubSeq(to, Len(from) + 2, Len(to))

\* relativeBuildDir(mesonFile) (line 60), of utils: the build folder beside
\* the meson.build, relative to the workspace root.
relativeBuildDir(file) == relative(Root, dirname(file) \o <<"/", "builddir">>)

\* Array.prototype.sort with the comparator of line 242: a stable insertion
\* of each item into the sorted prefix.
RECURSIVE InsertItem(_, _)
InsertItem(sorted, item) ==
  IF sorted = <<>> THEN <<item>>
  ELSE IF localeCompare(item.label, Head(sorted).label) < 0 THEN <<item>> \o sorted
  ELSE <<Head(sorted)>> \o InsertItem(Tail(sorted), item)

RECURSIVE SortItems(_)
SortItems(items) ==
  IF items = <<>> THEN <<>>
  ELSE InsertItem(SortItems(SubSeq(items, 1, Len(items) - 1)), items[Len(items)])

\* Line 241: one item for each file, with its 0-based index and its label.
MapItems(files) ==
  [k \in 1..Len(files) |-> [index |-> k - 1, label |-> relative(Root, files[k])]]

PickerItemsUnsorted(files) == MapItems(files)

\* Lines 241-242: the items passed to showQuickPick.
PickerItems(files) == SortItems(MapItems(files))

ResolvedChosenIgnoringFlag(saved, files, flag) == FALSE

ResolvedChosenOfStaleFile(saved, files, flag) == saved # NoPath /\ flag = "true"

\* Lines 47-56: the session's configurationChosen.
ResolvedChosen(saved, files, flag) ==
  IF saved # NoPath /\ saved \in Range(files) THEN flag = "true" ELSE FALSE

\* Lines 48-58: the authoritative file.
ResolvedFile(saved, files) ==
  IF saved # NoPath /\ saved \in Range(files) THEN saved ELSE files[1]

ShowsPickerForAnyCount(chosen, files) == ~chosen

ShowsPickerIgnoringChosen(chosen, files) == Len(files) > 1

\* The condition of line 240.
ShowsPicker(chosen, files) == ~chosen /\ Len(files) > 1

\* The truthiness test of line 238: true and "ask" pass it, false does not.
Truthy(value) == value # "false"

\* What showInformationMessage (line 214) resolves to.
ConfigureResponses == {"Yes", "Always", "No", "Never", "dismissed"}

\* Resolution passes counted after a pick; more are counted as this many.
MaxPasses == 3

\* Files discovered in one session.
MaxFiles == 3

\* Lines 42-65: discovery and the resolution pass.
Resolve(files) ==
  /\ actPc = "start"
  /\ mesonFiles' = files
  /\ passSaved' = wsMesonFile
  /\ passSavedChosen' = wsConfigurationChosen
  /\ IF Len(files) = 0
     THEN /\ actPc' = "inactive"
          /\ UNCHANGED <<wsMesonFile, wsBuildDir, wsSourceDir, wsConfigurationChosen,
                         configurationChosen, mesonFile, sourceDir, buildDir,
                         picked, pickedFrom, passes>>
     ELSE LET file == ResolvedFile(wsMesonFile, files) IN
          /\ configurationChosen' = ResolvedChosen(wsMesonFile, files, wsConfigurationChosen)
          /\ mesonFile' = file
          /\ sourceDir' = dirname(file)
          /\ buildDir' = relativeBuildDir(file)
          /\ wsMesonFile' = file
          /\ wsBuildDir' = relativeBuildDir(file)
          /\ wsSourceDir' = dirname(file)
          /\ wsConfigurationChosen' = "undefined"
          /\ actPc' = "resolved"
          /\ IF picked # NoPath /\ Range(files) = pickedFrom
             THEN /\ passes' = IF passes < MaxPasses THEN passes + 1 ELSE passes
                  /\ UNCHANGED <<picked, pickedFrom>>
             ELSE /\ picked' = NoPath
                  /\ pickedFrom' = {}
                  /\ passes' = 0
  /\ UNCHANGED <<configureOnOpenSetting, configured, configureOnOpen, configurePrompts,
                 pickerItems, pickerShown, selection, reconfigureRuns, reloadRequests>>
  /\ UNCHANGED exceptResolve

\* Lines 238-257 up to the quick pick: with a truthy configureOnOpen the
\* picker is shown, or reconfigure is run at once.
EnterConfigure(coo) ==
  IF Truthy(coo)
  THEN IF ShowsPicker(configurationChosen, mesonFiles)
       THEN /\ pickerItems' = PickerItems(mesonFiles)
            /\ pickerShown' = pickerShown + 1
            /\ actPc' = "pick"
            /\ UNCHANGED reconfigureRuns
       ELSE /\ reconfigureRuns' = reconfigureRuns + 1
            /\ actPc' = "done"
            /\ UNCHANGED <<pickerItems, pickerShown>>
  ELSE /\ actPc' = "done"
       /\ UNCHANGED <<pickerItems, pickerShown, reconfigureRuns>>

\* Lines 204-217, and 238-257 or 260 when no prompt is shown.
CheckConfigured(isConfigured) ==
  /\ actPc = "resolved"
  /\ configured' = isConfigured
  /\ IF isConfigured
     THEN /\ actPc' = "done"
          /\ UNCHANGED <<configureOnOpen, configurePrompts, pickerItems, pickerShown,
                         reconfigureRuns>>
     ELSE LET coo == IF configurationChosen THEN "true" ELSE configureOnOpenSetting IN
          /\ configureOnOpen' = coo
          /\ IF coo = "ask"
             THEN /\ configurePrompts' = configurePrompts + 1
                  /\ actPc' = "askConfigure"
                  /\ UNCHANGED <<pickerItems, pickerShown, reconfigureRuns>>
             ELSE /\ EnterConfigure(coo)
                  /\ UNCHANGED configurePrompts
  /\ UNCHANGED <<wsMesonFile, wsBuildDir, wsSourceDir, wsConfigurationChosen,
                 configureOnOpenSetting, mesonFiles, configurationChosen, mesonFile,
                 sourceDir, buildDir, selection, reloadRequests, passSaved,
                 passSavedChosen, picked, pickedFrom, passes>>
  /\ UNCHANGED exceptResolve

\* The prompt of line 214 resolves: lines 219-236, then 238-257.
ConfigureAnswered(response) ==
  /\ actPc = "askConfigure"
  /\ LET coo == IF response \in {"Yes", "Always"} THEN "true" ELSE configureOnOpen IN
     /\ configureOnOpen' = coo
     /\ configureOnOpenSetting' =
          CASE response = "Never" -> "false"
            [] response = "Always" -> "true"
            [] OTHER -> configureOnOpenSetting
     /\ EnterConfigure(coo)
  /\ UNCHANGED <<wsMesonFile, wsBuildDir, wsSourceDir, wsConfigurationChosen,
                 mesonFiles, configurationChosen, mesonFile, sourceDir, buildDir,
                 configured, configurePrompts, selection, reloadRequests, passSaved,
                 passSavedChosen, picked, pickedFrom, passes>>
  /\ UNCHANGED exceptResolve

\* showQuickPick of line 243 resolves to an item or to undefined: lines
\* 248-249 up to the first await, or 253-257.
PickerAnswered(sel) ==
  /\ actPc = "pick"
  /\ sel = <<>> \/ (Len(sel) = 1 /\ sel[1] \in Range(pickerItems))
  /\ selection' = sel
  /\ IF sel # <<>> /\ mesonFiles[sel[1].index + 1] # mesonFile
     THEN /\ wsMesonFile' = mesonFiles[sel[1].index + 1]
          /\ actPc' = "persistFile"
          /\ picked' = NoPath
          /\ pickedFrom' = {}
          /\ passes' = 0
          /\ UNCHANGED reconfigureRuns
     ELSE /\ reconfigureRuns' = IF sel = <<>> THEN reconfigureRuns ELSE reconfigureRuns + 1
          /\ actPc' = "done"
          /\ UNCHANGED <<wsMesonFile, picked, pickedFrom, passes>>
  /\ UNCHANGED <<wsBuildDir, wsSourceDir, wsConfigurationChosen, configureOnOpenSetting,
                 mesonFiles, configurationChosen, mesonFile, sourceDir, buildDir,
                 configured, configureOnOpen, configurePrompts, pickerItems, pickerShown,
                 reloadRequests, passSaved, passSavedChosen>>
  /\ UNCHANGED exceptResolve

\* The update of line 249 settles; line 250 up to its await.
PersistFileDone ==
  /\ actPc = "persistFile"
  /\ wsConfigurationChosen' = "true"
  /\ picked' = wsMesonFile
  /\ pickedFrom' = Range(mesonFiles)
  /\ passes' = 0
  /\ actPc' = "persistChosen"
  /\ UNCHANGED <<wsMesonFile, wsBuildDir, wsSourceDir, configureOnOpenSetting,
                 mesonFiles, configurationChosen, mesonFile, sourceDir, buildDir,
                 configured, configureOnOpen, configurePrompts, pickerItems, pickerShown,
                 selection, reconfigureRuns, reloadRequests, passSaved, passSavedChosen>>
  /\ UNCHANGED exceptResolve

\* The update of line 250 settles; lines 251-257.
PersistChosenDone ==
  /\ actPc = "persistChosen"
  /\ reloadRequests' = reloadRequests + 1
  /\ reconfigureRuns' = reconfigureRuns + 1
  /\ actPc' = "done"
  /\ UNCHANGED <<wsMesonFile, wsBuildDir, wsSourceDir, wsConfigurationChosen,
                 configureOnOpenSetting, mesonFiles, configurationChosen, mesonFile,
                 sourceDir, buildDir, configured, configureOnOpen, configurePrompts,
                 pickerItems, pickerShown, selection, passSaved, passSavedChosen,
                 picked, pickedFrom, passes>>
  /\ UNCHANGED exceptResolve

\* The window is reloaded (as requested at line 251, or by the user): the
\* session ends and activate runs again on the persisted state (lines 33-42).
Reload ==
  /\ actPc # "start"
  /\ actPc' = "start"
  /\ mesonFiles' = <<>>
  /\ configurationChosen' = FALSE
  /\ mesonFile' = NoPath
  /\ sourceDir' = NoPath
  /\ buildDir' = NoPath
  /\ configured' = FALSE
  /\ configureOnOpen' = "false"
  /\ configurePrompts' = 0
  /\ pickerItems' = <<>>
  /\ pickerShown' = 0
  /\ selection' = <<>>
  /\ reconfigureRuns' = 0
  /\ reloadRequests' = 0
  /\ passSaved' = NoPath
  /\ passSavedChosen' = "undefined"
  /\ UNCHANGED <<wsMesonFile, wsBuildDir, wsSourceDir, wsConfigurationChosen,
                 configureOnOpenSetting, picked, pickedFrom, passes>>
  /\ UNCHANGED exceptResolve

\* ============================================================================
\* Task cache and watchers: lines 102-138
\* ============================================================================

\* `null`, the value of `mesonTasks` when no list is cached (line 102).
NoTasks == 0

\* Runs of changeHandler in one session.
MaxRuns == 2

\* Calls of provideTasks in one session.
MaxQueries == 3

\* Configuration-change events delivered to the listener of lines 130-137.
MaxConfigChanges == 1

TasksAfterQueryAlwaysFresh(tasks, fresh) == fresh

\* Line 106, `mesonTasks ??= getMesonTasks(...)`: the value of mesonTasks after
\* it, where fresh is the promise a new call of getMesonTasks returns.
TasksAfterQuery(tasks, fresh) == IF tasks = NoTasks THEN fresh ELSE tasks

InvalidatedTasksKept(tasks, fresh) == tasks

InvalidatedTasksOrPrefetch(tasks, fresh) == IF tasks = NoTasks THEN fresh ELSE NoTasks

\* Line 116, `mesonTasks = null`: the value of mesonTasks after it.
InvalidatedTasks(tasks, fresh) == NoTasks

\* provideTasks (lines 105-108): the host queries the provider.  The promise
\* of getMesonTasks is stored and returned before it settles.
ProvideTasks ==
  /\ Len(queries) < MaxQueries
  /\ LET fresh == Len(computations) + 1
         new == TasksAfterQuery(mesonTasks, fresh)
     IN /\ mesonTasks' = new
        /\ computations' = IF new = fresh THEN Append(computations, Len(runs))
                           ELSE computations
        /\ queries' = Append(queries, [epoch |-> Len(runs), got |-> new])
  /\ UNCHANGED <<runs, configLog, watchReloads>>
  /\ UNCHANGED exceptWatch

\* changeHandler up to its first await (lines 116-118).
BeginChangeHandler(source) ==
  LET fresh == Len(computations) + 1
      new == InvalidatedTasks(mesonTasks, fresh)
  IN /\ mesonTasks' = new
     /\ computations' = IF new = fresh THEN Append(computations, Len(runs) + 1)
                        ELSE computations
     /\ runs' = Append(runs, [source |-> source, pc |-> "rebuildTests",
                              effects |-> <<"invalidate", "clearCache", "rebuildTests">>,
                              cacheAfter |-> new])

\* The watcher of lines 122-124 reports build.ninja created or changed.
BuildFileChanged ==
  /\ Len(runs) < MaxRuns
  /\ BeginChangeHandler("watcher")
  /\ UNCHANGED <<queries, configLog, watchReloads>>
  /\ UNCHANGED exceptWatch

\* rebuildTests of line 118 settles; line 119 up to its await, or the handler
\* ends with the rejection.
RebuildTestsSettled(i, outcome) ==
  /\ i \in 1..Len(runs)
  /\ runs[i].pc = "rebuildTests"
  /\ runs' = IF outcome = "ok"
             THEN [runs EXCEPT ![i].pc = "genEnvFile",
                               ![i].effects = Append(@, "genEnvFile")]
             ELSE [runs EXCEPT ![i].pc = "failed"]
  /\ UNCHANGED <<mesonTasks, computations, queries, configLog, watchReloads>>
  /\ UNCHANGED exceptWatch

\* genEnvFile of line 119 settles; line 120, or the handler ends with the
\* rejection.
GenEnvFileSettled(i, outcome) ==
  /\ i \in 1..Len(runs)
  /\ runs[i].pc = "genEnvFile"
  /\ runs' = IF outcome = "ok"
             THEN [runs EXCEPT ![i].pc = "done", ![i].effects = Append(@, "refresh")]
             ELSE [runs EXCEPT ![i].pc = "failed"]
  /\ UNCHANGED <<mesonTasks, computations, queries, configLog, watchReloads>>
  /\ UNCHANGED exceptWatch

\* Settings a configuration-change event may report, as paths of sections.
ConfigKeys ==
  { <<"mesonbuild", "buildFolder">>,
    <<"mesonbuild", "configureOnOpen">>,
    <<"editor", "fontSize">> }

\* A configuration-change event: the settings that changed.
ConfigEvents == (SUBSET ConfigKeys) \ {{}}

IsPrefix(x, y) == Len(x) <= Len(y) /\ SubSeq(y, 1, Len(x)) = x

\* ConfigurationChangeEvent.affectsConfiguration (lines 131, 134): a changed
\* setting lies in the section, or the section in a changed setting.
affectsConfiguration(e, section) ==
  \E key \in e : IsPrefix(section, key) \/ IsPrefix(key, section)

ConfigChangeEffectNamespaceFirst(e) ==
  IF affectsConfiguration(e, <<"mesonbuild">>) THEN "invalidate"
  ELSE IF affectsConfiguration(e, <<"mesonbuild", "buildFolder">>) THEN "reload"
  ELSE "none"

\* The branches of lines 131-136.
ConfigChangeEffect(e) ==
  IF affectsConfiguration(e, <<"mesonbuild", "buildFolder">>) THEN "reload"
  ELSE IF affectsConfiguration(e, <<"mesonbuild">>) THEN "invalidate"
  ELSE "none"

\* The listener of lines 130-137 receives an event.
ConfigurationChanged(e) ==
  /\ Len(configLog) < MaxConfigChanges
  /\ ConfigChangeEffect(e) = "invalidate" => Len(runs) < MaxRuns
  /\ CASE ConfigChangeEffect(e) = "reload" ->
            /\ watchReloads' = watchReloads + 1
            /\ UNCHANGED <<mesonTasks, computations, runs>>
       [] ConfigChangeEffect(e) = "invalidate" ->
            /\ BeginChangeHandler("config")
            /\ UNCHANGED watchReloads
       [] OTHER ->
            UNCHANGED <<mesonTasks, computations, runs, watchReloads>>
  /\ configLog' = Append(configLog, [keys |-> e,
                                     reloaded |-> watchReloads' # watchReloads,
                                     ran |-> Len(runs') # Len(runs)])
  /\ UNCHANGED queries
  /\ UNCHANGED exceptWatch

\* ============================================================================
\* The hasProject context key: lines 77-85
\* ============================================================================

\* meson.build files the workspace can hold at once.
MaxProjectFiles == 2

\* Calls of updateHasProject in one session, the one of line 85 included.
MaxSearches == 3

\* Line 79, `mesonFiles.length > 0`, as the value handed to setContext.
HasProjectValue(found) == IF found > 0 THEN "true" ELSE "false"

\* updateHasProject up to its await (line 78): findFiles is called.
StartSearch == searches' = Append(searches, [pc |-> "started", found |-> 0])

\* The watcher of lines 81-83 reports a meson.build file created.
FileCreated ==
  /\ projectFiles < MaxProjectFiles
  /\ Len(searches) < MaxSearches
  /\ projectFiles' = projectFiles + 1
  /\ StartSearch
  /\ UNCHANGED hasProject
  /\ UNCHANGED exceptProject

\* The watcher of lines 81-83 reports a meson.build file deleted.
FileDeleted ==
  /\ projectFiles > 0
  /\ Len(searches) < MaxSearches
  /\ projectFiles' = projectFiles - 1
  /\ StartSearch
  /\ UNCHANGED hasProject
  /\ UNCHANGED exceptProject

\* findFiles of line 78 reads the workspace: its result is the files that
\* exist at this moment.
SearchScans(i) ==
  /\ i \in 1..Len(searches)
  /\ searches[i].pc = "started"
  /\ searches' = [searches EXCEPT ![i] = [pc |-> "scanned", found |-> projectFiles]]
  /\ UNCHANGED <<projectFiles, hasProject>>
  /\ UNCHANGED exceptProject

\* The promise of findFiles resolves and line 79 sets the context key.
SearchCompletes(i) ==
  /\ i \in 1..Len(searches)
  /\ searches[i].pc = "scanned"
  /\ hasProject' = HasProjectValue(searches[i].found)
  /\ searches' = [searches EXCEPT ![i].pc = "done"]
  /\ UNCHANGED projectFiles
  /\ UNCHANGED exceptProject

\* ============================================================================
\* Task commands: lines 162-202 and 334-376
\* ============================================================================

\* Invocations of task commands in one session.
MaxCommands == 2

\* Commands whose handler calls runFirstTask (lines 163-165, 175-177, 193-195).
FirstTaskCommands == {"reconfigure", "install", "clean"}

\* Commands whose handler accepts a target name (lines 169, 181, 187).
NamedCommands == {"build", "test", "benchmark"}

\* Commands whose handler calls pickAndRunTask (lines 169-171, 181-189, 199-201).
PickCommands == NamedCommands \cup {"run"}

\* Whether the invocation starts a task without a picker: the handlers of
\* FirstTaskCommands, and line 363 of pickAndRunTask.
RunsFirstTask(command, named) == command \in FirstTaskCommands \/ named

\* A command is invoked.  The handler calls runFirstTask or pickAndRunTask
\* without awaiting it, so the handler's own promise resolves at once.  With
\* no name, pickTask runs up to its await of getTasks (lines 335-340).
Invoke(command, named) ==
  /\ Len(cmds) < MaxCommands
  /\ named => command \in NamedCommands
  /\ cmds' = Append(cmds,
       IF RunsFirstTask(command, named)
       THEN [command |-> command, named |-> named, host |-> "resolved",
             op |-> "finished", picker |-> "none", task |-> "running"]
       ELSE [command |-> command, named |-> named, host |-> "resolved",
             op |-> "loading", picker |-> "shown", task |-> "none"])
  /\ UNCHANGED exceptCommands

\* getTasks of line 340 settles.  Fulfilled: the items are set and the
\* listeners of lines 353-358 are registered.  Rejected: pickTask rejects and
\* the catch of line 370 takes it.
GetTasksSettles(i, outcome) ==
  /\ i \in 1..Len(cmds)
  /\ cmds[i].op = "loading"
  /\ cmds' = [cmds EXCEPT ![i].op = IF outcome = "ok" THEN "picking" ELSE "finished"]
  /\ UNCHANGED exceptCommands

\* The position of pickAndRunTask after the picker is hidden: the listener of
\* line 358 exists only once pickTask has reached line 352.
OpAfterHide(op) == IF op = "picking" THEN "finished" ELSE op

\* The user dismisses the picker.
UserDismisses(i) ==
  /\ i \in 1..Len(cmds)
  /\ cmds[i].picker = "shown"
  /\ cmds' = [cmds EXCEPT ![i].picker = "hidden", ![i].op = OpAfterHide(@)]
  /\ UNCHANGED exceptCommands

\* The user accepts in the picker, with an active item or (no task listed)
\* without one: lines 353-357 and 373-375.
UserAccepts(i, hasItem) ==
  /\ i \in 1..Len(cmds)
  /\ cmds[i].picker = "shown"
  /\ cmds[i].op = "picking"
  /\ cmds' = [cmds EXCEPT ![i].picker = "disposed",
                          ![i].op = "finished",
                          ![i].task = IF hasItem THEN "running" ELSE "none"]
  /\ UNCHANGED exceptCommands

\* The promise of runFirstTask or runTask settles; nothing awaits it.
TaskSettles(i, outcome) ==
  /\ i \in 1..Len(cmds)
  /\ cmds[i].task = "running"
  /\ cmds' = [cmds EXCEPT ![i].task = outcome]
  /\ UNCHANGED exceptCommands

\* ============================================================================
\* Specifications
\* ============================================================================

\* The configuration section at rest, for the runs of the language server
\* section.
ResolveIdle ==
  /\ wsMesonFile = <<>>
  /\ wsBuildDir = <<>>
  /\ wsSourceDir = <<>>
  /\ wsConfigurationChosen = "undefined"
  /\ configureOnOpenSetting = "ask"
  /\ mesonFiles = <<>>
  /\ actPc = "done"
  /\ configurationChosen = FALSE
  /\ mesonFile = <<>>
  /\ sourceDir = <<>>
  /\ buildDir = <<>>
  /\ configured = TRUE
  /\ configureOnOpen = "false"
  /\ configurePrompts = 0
  /\ pickerItems = <<>>
  /\ pickerShown = 0
  /\ selection = <<>>
  /\ reconfigureRuns = 0
  /\ reloadRequests = 0
  /\ passSaved = <<>>
  /\ passSavedChosen = "undefined"
  /\ picked = <<>>
  /\ pickedFrom = {}
  /\ passes = 0

\* The language server section before activate reaches it, for the runs of the
\* configuration section.
LspIdle ==
  /\ downloadSetting = "ask"
  /\ downloadLanguageServer = "unread"
  /\ server = "null"
  /\ client = NoClient
  /\ clients = <<>>
  /\ pc = [c \in Callers |-> "idle"]
  /\ consent = [c \in Callers |-> NoRun]
  /\ made = [c \in Callers |-> NoClient]
  /\ settingWrites = <<>>
  /\ lintersActive = FALSE
  /\ formattersActive = FALSE
  /\ configSubscribed = FALSE
  /\ configEvents = 0

\* The task cache and the watchers before activate reaches line 102.
WatchIdle ==
  /\ mesonTasks = NoTasks
  /\ computations = <<>>
  /\ queries = <<>>
  /\ runs = <<>>
  /\ configLog = <<>>
  /\ watchReloads = 0

\* The hasProject section before activate reaches line 77.
ProjectIdle ==
  /\ projectFiles = 0
  /\ searches = <<>>
  /\ hasProject = "unset"

\* No task command has been run.
CommandsIdle == cmds = <<>>

\* The state when activate reaches line 263, for every value of the two
\* settings it reads there.
InitLsp ==
  /\ downloadSetting \in ConsentSettings
  /\ downloadLanguageServer = "unread"
  /\ server \in Servers
  /\ client = NoClient
  /\ clients = <<>>
  /\ pc = [c \in Callers |-> IF c = 0 THEN "init" ELSE "idle"]
  /\ consent = [c \in Callers |-> NoRun]
  /\ made = [c \in Callers |-> NoClient]
  /\ settingWrites = <<>>
  /\ lintersActive = FALSE
  /\ formattersActive = FALSE
  /\ configSubscribed = FALSE
  /\ configEvents = 0
  /\ ResolveIdle
  /\ WatchIdle
  /\ ProjectIdle
  /\ CommandsIdle

NextLsp ==
  \/ ActivateReadSettings
  \/ \E c \in Callers, r \in PromptResponses : PromptAnswered(c, r)
  \/ \E o \in {"client", "null", "throw"} : ActivateCreateDone(o)
  \/ ActivateUpdateDone
  \/ ActivateReloadDone
  \/ ServerConfigChanged
  \/ \E i \in Invocations : RestartInvoked(i)
  \/ \E i \in Invocations, o \in {"client", "null", "throw"} : RestartCreateDone(i, o)
  \/ \E i \in Invocations : RestartRestartDone(i)
  \/ \E i \in Invocations : RestartReloadDone(i)

SpecLsp == InitLsp /\ [][NextLsp]_vars

\* The first session of a workspace: nothing is persisted yet, and activate
\* is at line 42.  Later sessions are reached through Reload.
InitResolve ==
  /\ wsMesonFile = NoPath
  /\ wsBuildDir = NoPath
  /\ wsSourceDir = NoPath
  /\ wsConfigurationChosen = "undefined"
  /\ configureOnOpenSetting \in {"true", "false", "ask"}
  /\ mesonFiles = <<>>
  /\ actPc = "start"
  /\ configurationChosen = FALSE
  /\ mesonFile = NoPath
  /\ sourceDir = NoPath
  /\ buildDir = NoPath
  /\ configured = FALSE
  /\ configureOnOpen = "false"
  /\ configurePrompts = 0
  /\ pickerItems = <<>>
  /\ pickerShown = 0
  /\ selection = <<>>
  /\ reconfigureRuns = 0
  /\ reloadRequests = 0
  /\ passSaved = NoPath
  /\ passSavedChosen = "undefined"
  /\ picked = NoPath
  /\ pickedFrom = {}
  /\ passes = 0
  /\ LspIdle
  /\ WatchIdle
  /\ ProjectIdle
  /\ CommandsIdle

NextResolve ==
  \/ \E files \in Discoveries(MaxFiles) : Resolve(files)
  \/ \E c \in BOOLEAN : CheckConfigured(c)
  \/ \E r \in ConfigureResponses : ConfigureAnswered(r)
  \/ \E sel \in {<<>>} \cup {<<item>> : item \in Range(pickerItems)} : PickerAnswered(sel)
  \/ PersistFileDone
  \/ PersistChosenDone
  \/ Reload

SpecResolve == InitResolve /\ [][NextResolve]_vars

\* The state when activate has registered the task provider, the watcher of
\* build.ninja and the configuration listener (line 138).
InitWatch ==
  /\ WatchIdle
  /\ LspIdle
  /\ ResolveIdle
  /\ ProjectIdle
  /\ CommandsIdle

NextWatch ==
  \/ ProvideTasks
  \/ BuildFileChanged
  \/ \E i \in 1..MaxRuns, o \in {"ok", "throw"} : RebuildTestsSettled(i, o)
  \/ \E i \in 1..MaxRuns, o \in {"ok", "throw"} : GenEnvFileSettled(i, o)
  \/ \E e \in ConfigEvents : ConfigurationChanged(e)

SpecWatch == InitWatch /\ [][NextWatch]_vars

\* The state when activate has called updateHasProject at line 85: activation
\* requires a meson.build file, and the first search is under way.
InitProject ==
  /\ projectFiles \in 1..MaxProjectFiles
  /\ searches = <<[pc |-> "started", found |-> 0]>>
  /\ hasProject = "unset"
  /\ LspIdle
  /\ ResolveIdle
  /\ WatchIdle
  /\ CommandsIdle

NextProject ==
  \/ FileCreated
  \/ FileDeleted
  \/ \E i \in 1..MaxSearches : SearchScans(i)
  \/ \E i \in 1..MaxSearches : SearchCompletes(i)

SpecProject == InitProject /\ [][NextProject]_vars

\* The state when activate has registered the task commands (line 202).
InitCommands ==
  /\ CommandsIdle
  /\ LspIdle
  /\ ResolveIdle
  /\ WatchIdle
  /\ ProjectIdle

NextCommands ==
  \/ \E command \in FirstTaskCommands \cup PickCommands, named \in BOOLEAN :
       Invoke(command, named)
  \/ \E i \in 1..MaxCommands, o \in {"ok", "throw"} : GetTasksSettles(i, o)
  \/ \E i \in 1..MaxCommands : UserDismisses(i)
  \/ \E i \in 1..MaxCommands, hasItem \in BOOLEAN : UserAccepts(i, hasItem)
  \/ \E i \in 1..MaxCommands, o \in {"ok", "failed"} : TaskSettles(i, o)

SpecCommands == InitCommands /\ [][NextCommands]_vars

\* ============================================================================
\* Claims about the language server section
\* ============================================================================

\* C1: at most one language client is live at a time, under every interleaving
\* of the session start and the runs of restartLanguageServer.
C1_AtMostOneLiveClient == Cardinality(LiveClients) <= 1

\* C3: whenever the consent protocol runs while the persisted setting is true
\* or false, it returns that value and shows no prompt.
C3_NoPromptWhenSettingDecided ==
  \A c \in Callers :
    consent[c].persisted \in {"true", "false"} =>
      /\ consent[c].response = "none"
      /\ consent[c].result = consent[c].persisted

\* The runs of the consent protocol that showed the prompt and got its answer.
AnsweredRuns == {c \in Callers : consent[c].arg = "ask" /\ consent[c].response # "pending"}

\* C2: with the setting "ask" the answer decides the outcome: "Yes" returns
\* true and writes true, "Never" returns false and writes false, "Not this
\* time" returns false and writes "ask", a closed prompt returns false and
\* writes nothing; and the setting is written on no other path: every write is
\* the write of one answered prompt, and the setting holds the last one.
C2_ConsentAnswerDecides ==
  /\ \A c \in AnsweredRuns :
       LET r == consent[c] IN
         /\ r.response \in PromptResponses
         /\ r.response = "Yes" => r.result = "true" /\ r.wrote = <<"true">>
         /\ r.response = "Never" => r.result = "false" /\ r.wrote = <<"false">>
         /\ r.response = "Not this time" => r.result = "false" /\ r.wrote = <<"ask">>
         /\ r.response = "dismissed" => r.result = "false" /\ r.wrote = <<>>
  /\ \A c \in Callers \ AnsweredRuns : consent[c].wrote = <<>>
  /\ Len(settingWrites) = Cardinality({c \in AnsweredRuns : consent[c].wrote # <<>>})
  /\ \A v \in Range(settingWrites) : \E c \in AnsweredRuns : consent[c].wrote = <<v>>
  /\ settingWrites # <<>> => downloadSetting = settingWrites[Len(settingWrites)]
  /\ settingWrites = <<>> /\ pc[0] # "init" => downloadSetting = consent[0].persisted

\* C2 witness: a run of the protocol showed the prompt, the prompt was closed
\* without a choice, and the setting was not written.
C2_PromptClosedWithoutChoice ==
  \E c \in AnsweredRuns :
    /\ consent[c].response = "dismissed"
    /\ consent[c].result = "false"
    /\ settingWrites = <<>>
    /\ downloadSetting = "ask"

\* update, then start, then reloadConfig were issued on the client, in that
\* order.
StartSequenceIssued(log) ==
  /\ FirstIndex(log, "update") > 0
  /\ FirstIndex(log, "start") > FirstIndex(log, "update")
  /\ \E k \in 1..Len(log) : log[k] = "reloadConfig" /\ k > FirstIndex(log, "start")

\* C4: at session start a constructed client gets update, start and
\* reloadConfig in that order, start not before update has completed; without
\* a client none of them is called and `client` stays null; so a client held
\* in `client` is one on which start has been issued (once no await of the
\* start sequence is pending).
C4_SessionStartStartsTheClient ==
  /\ pc[0] = "update" => "start" \notin Range(clients[made[0]])
  /\ pc[0] \in {"reloadConfig", "registered"} /\ made[0] # NoClient =>
       StartSequenceIssued(clients[made[0]])
  /\ pc[0] = "registered" /\ made[0] = NoClient /\ pc[1] = "idle" =>
       client = NoClient /\ clients = <<>>
  /\ pc[0] = "registered" /\ client # NoClient => Started(client)

\* C5: a run of restartLanguageServer that found no client and constructed one
\* issued on it the calls of a fresh start: update, start, reloadConfig.
C5_RestartWithoutClientIsFreshStart ==
  \A i \in Invocations :
    made[i] # NoClient =>
      /\ consent[i] # NoRun
      /\ Len(clients[made[i]]) >= 3
      /\ SubSeq(clients[made[i]], 1, 3) = <<"update", "start", "reloadConfig">>

\* activate has passed the branch of line 297.
PastLinterBranch == pc[0] \in {"update", "reloadConfig", "registered"}

\* C6 as stated: linters and formatters are skipped exactly when the configured
\* server is Swift-MesonLSP, whatever the construction yielded.
C6_LintersSkippedIffRichServer ==
  PastLinterBranch =>
    /\ lintersActive <=> server # RichServer
    /\ formattersActive <=> server # RichServer

\* C6 amended: once the construction has completed, linters and formatters are
\* skipped exactly when the configured server is Swift-MesonLSP and the
\* construction yielded a client; otherwise both are activated.  Before the
\* branch is reached neither is activated.
C6_LintersSkippedIffRichClient ==
  /\ PastLinterBranch =>
       /\ lintersActive <=> ~(server = RichServer /\ made[0] # NoClient)
       /\ formattersActive <=> ~(server = RichServer /\ made[0] # NoClient)
  /\ ~PastLinterBranch => ~lintersActive /\ ~formattersActive

\* C6 witness: the rich server is configured, no client resulted, and linters
\* and formatters were activated.
C6_RichServerWithoutClient ==
  /\ pc[0] = "registered"
  /\ server = RichServer
  /\ made[0] = NoClient
  /\ lintersActive /\ formattersActive

\* ============================================================================
\* Claims about the configuration section
\* ============================================================================

\* The resolution pass of this session has run.
Resolved == actPc \notin {"start", "inactive"}

\* The pass found no valid persisted choice: none saved, or a saved path that
\* is not among the discovered files.
NoValidChoice == passSaved = NoPath \/ passSaved \notin Range(mesonFiles)

\* C7: when exactly one file is discovered, whatever is persisted, that file is
\* the authoritative one and the configuration picker is never shown in the
\* session.
C7_SingleFileIsAuthoritative ==
  Resolved /\ Len(mesonFiles) = 1 =>
    /\ mesonFile = mesonFiles[1]
    /\ wsMesonFile = mesonFiles[1]
    /\ pickerShown = 0
    /\ pickerItems = <<>>
    /\ actPc \notin {"pick", "persistFile", "persistChosen"}

\* C7 witness: one file is discovered, the persisted file is another one and
\* the persisted flag was true; the build is not configured and reconfigure
\* has been run without a picker.
C7_SingleFileReconfigured ==
  /\ Len(mesonFiles) = 1
  /\ passSaved # NoPath /\ passSaved # mesonFiles[1]
  /\ passSavedChosen = "true"
  /\ actPc = "done" /\ ~configured /\ reconfigureRuns = 1
  /\ mesonFile = mesonFiles[1]

\* The picker's items offer every discovered file exactly once, each item
\* labelled with the path of its file relative to the root, in ascending order
\* of the labels.
ItemsOfferEveryFileSorted ==
  /\ Len(pickerItems) = Len(mesonFiles)
  /\ \A k \in 1..Len(mesonFiles) :
       Cardinality({n \in 1..Len(pickerItems) : pickerItems[n].index = k - 1}) = 1
  /\ \A n \in 1..Len(pickerItems) :
       /\ pickerItems[n].index \in 0..(Len(mesonFiles) - 1)
       /\ pickerItems[n].label = relative(Root, mesonFiles[pickerItems[n].index + 1])
       /\ Root \o <<"/">> \o pickerItems[n].label = mesonFiles[pickerItems[n].index + 1]
  /\ \A n \in 1..(Len(pickerItems) - 1) :
       localeCompare(pickerItems[n].label, pickerItems[n + 1].label) < 0

\* C8: with two or more discovered files and no valid persisted choice, the
\* authoritative file is the first discovered one; and when the build is not
\* configured and configure-on-open resolves to yes, the picker is shown,
\* offering every file once, sorted by relative path, each item mapping back to
\* its file.
C8_FirstFileAndSortedPicker ==
  Resolved /\ Len(mesonFiles) >= 2 /\ NoValidChoice =>
    /\ mesonFile = mesonFiles[1]
    /\ ~configurationChosen
    /\ actPc \in {"pick", "persistFile", "persistChosen", "done"}
         /\ ~configured /\ configureOnOpen = "true" =>
           pickerShown = 1 /\ ItemsOfferEveryFileSorted
    /\ actPc = "pick" => ItemsOfferEveryFileSorted

\* C8 witness: the picker is open over three files whose discovery order is
\* not the order of their labels, after a stale persisted choice.
C8_PickerOpenReordered ==
  /\ Len(mesonFiles) = 3
  /\ NoValidChoice
  /\ actPc = "pick"
  /\ configureOnOpen = "true"
  /\ pickerItems # MapItems(mesonFiles)
  /\ pickerItems[1].index = 2

\* C9 as stated: after a pick persisted the file and the flag, every later
\* resolution pass over the same discovered set selects that file and yields
\* configurationChosen true, and the picker is not shown.
C9_PickSurvivesEveryReload ==
  Resolved /\ picked # NoPath /\ passes >= 1 =>
    /\ mesonFile = picked
    /\ configurationChosen
    /\ pickerShown = 0

\* C9 amended: every later pass over the same discovered set selects the
\* picked file; the first pass after the pick yields configurationChosen true
\* and shows no picker; that pass resets the persisted flag, so from the second
\* pass on configurationChosen is false.
C9_PickSurvivesFirstReload ==
  Resolved /\ picked # NoPath /\ passes >= 1 =>
    /\ mesonFile = picked
    /\ passes = 1 => configurationChosen /\ pickerShown = 0 /\ passSavedChosen = "true"
    /\ passes >= 2 => ~configurationChosen /\ passSavedChosen = "undefined"

\* C9 witness: in the second session after the pick, over the same files, the
\* picked file is authoritative and the picker is open again.
C9_PickerOpenOnSecondReload ==
  /\ picked # NoPath
  /\ passes = 2
  /\ mesonFile = picked
  /\ actPc = "pick"

\* The persisted file is stale: saved, but not among the discovered files.
StaleChoice == passSaved # NoPath /\ passSaved \notin Range(mesonFiles)

\* A resolution pass that finds the persisted file outside the discovered set
\* discards it: configurationChosen is false whatever the persisted flag
\* was, the authoritative file is a discovered one, and the pass leaves the
\* persisted flag unset.
DiscardsStaleChoice ==
  Resolved /\ StaleChoice =>
    /\ ~configurationChosen
    /\ mesonFile \in Range(mesonFiles)
    /\ mesonFile = mesonFiles[1]
    /\ actPc = "resolved" => wsConfigurationChosen = "undefined" /\ wsMesonFile = mesonFile

\* The persisted flag becomes true only in the step that follows a selection
\* in the picker (line 250).
FlagSetOnlyByPick ==
  wsConfigurationChosen' = "true" /\ wsConfigurationChosen # "true" =>
    actPc = "persistFile" /\ selection # <<>>

\* C10: a stale persisted file is discarded by the resolution pass, in every
\* reachable state, and the persisted flag becomes true only through a
\* selection in the picker, in every step.
C10_StaleChoiceDiscarded == []DiscardsStaleChoice /\ [][FlagSetOnlyByPick]_vars

\* C10 witness: the pass has just run on a stale persisted file whose flag was
\* persisted true.
C10_StaleChoiceWithFlag ==
  /\ actPc = "resolved"
  /\ StaleChoice
  /\ passSavedChosen = "true"
  /\ ~configurationChosen
  /\ wsConfigurationChosen = "undefined"

\* activate has passed the test of line 204 in this session.
CheckedConfigured == actPc \notin {"start", "inactive", "resolved"}

\* C19: a session that starts with configurationChosen true on a build that is
\* not configured runs reconfigure without showing the configure-on-open prompt
\* or the configuration picker, whatever the configure-on-open setting and
\* however many files are discovered.
C19_ChosenSessionReconfiguresSilently ==
  CheckedConfigured /\ configurationChosen /\ ~configured =>
    /\ actPc = "done"
    /\ reconfigureRuns = 1
    /\ configurePrompts = 0
    /\ pickerShown = 0
    /\ configureOnOpen = "true"

\* C19 witness: the flag was persisted true for a valid file, the setting says
\* never to configure on open, several files are discovered, and reconfigure
\* has run.
C19_ChosenSessionWithSettingFalse ==
  /\ actPc = "done"
  /\ configurationChosen /\ passSavedChosen = "true"
  /\ ~configured
  /\ configureOnOpenSetting = "false"
  /\ Len(mesonFiles) >= 2
  /\ reconfigureRuns = 1

\* C20: on a build that is not configured, reconfigure is run at most once in
\* the session, and exactly when configure-on-open resolved to yes and the
\* picker was not shown or was closed with a selection; a selection of another
\* file persists the file and the flag and requests a reload before
\* reconfigure runs on the session's unchanged directories; a selection of the
\* provisional file persists nothing.
C20_ReconfigureExactlyOnYes ==
  /\ reconfigureRuns <= 1
  /\ actPc = "done" /\ CheckedConfigured /\ ~configured =>
       /\ reconfigureRuns = 1 <=>
            configureOnOpen = "true" /\ (pickerShown = 0 \/ selection # <<>>)
       /\ pickerShown = 1 /\ selection = <<>> => reconfigureRuns = 0
       /\ sourceDir = dirname(mesonFile) /\ buildDir = relativeBuildDir(mesonFile)
       /\ selection # <<>> /\ mesonFiles[selection[1].index + 1] # mesonFile =>
            /\ wsMesonFile = mesonFiles[selection[1].index + 1]
            /\ wsConfigurationChosen = "true"
            /\ reloadRequests = 1
       /\ selection # <<>> /\ mesonFiles[selection[1].index + 1] = mesonFile =>
            /\ wsMesonFile = mesonFile
            /\ wsConfigurationChosen = "undefined"
            /\ reloadRequests = 0
  /\ actPc \in {"persistFile", "persistChosen"} => reconfigureRuns = 0 /\ reloadRequests = 0

\* ============================================================================
\* Claims about the task cache and the watchers (SpecWatch)
\* ============================================================================

IssuedInOrder(effects, names) ==
  \E f \in [1..Len(names) -> 1..Len(effects)] :
    /\ \A n \in 1..Len(names) : effects[f[n]] = names[n]
    /\ \A n \in 1..(Len(names) - 1) : f[n] < f[n + 1]

FourEffects == <<"invalidate", "rebuildTests", "genEnvFile", "refresh">>

\* C11: every run of the change handler issues task-cache invalidation, test
\* rebuild, environment-file regeneration and presentation refresh, in that
\* order, and no effect waits for the completion or success of another: a
\* run that has suspended on, or ended with, an earlier effect has issued
\* the later ones too.
C11_EffectsIssuedIndependently ==
  \A i \in 1..Len(runs) : IssuedInOrder(runs[i].effects, FourEffects)

\* C12: the cached list is null when a handler run first suspends, and a
\* provider query receives a list whose computation started after the last
\* event delivered before the query.
C12_NoStaleListAfterEvent ==
  /\ \A i \in 1..Len(runs) : runs[i].cacheAfter = NoTasks
  /\ \A q \in 1..Len(queries) :
       /\ queries[q].got \in 1..Len(computations)
       /\ computations[queries[q].got] = queries[q].epoch

\* A query before the event, the event with its handler run still suspended,
\* and a query after the event which is served a new computation.
C12_QueryAfterEventWhileRunPending ==
  /\ Len(runs) = 1
  /\ runs[1].pc = "rebuildTests"
  /\ Len(queries) = 2
  /\ queries[1].epoch = 0
  /\ queries[2].epoch = 1
  /\ queries[2].got # queries[1].got

\* No provider query was made since the i-th handler run began.
NoQuerySince(i) == \A q \in 1..Len(queries) : queries[q].epoch < i

\* C13: with no provider query in between, a second handler run (overlapping
\* the first or not) leaves the cached task list as the first one left it.
C13_HandlerIdempotent ==
  \A i \in 1..Len(runs) :
    NoQuerySince(i) =>
      /\ mesonTasks = runs[i].cacheAfter
      /\ \A j \in (i + 1)..Len(runs) : runs[j].cacheAfter = runs[i].cacheAfter

\* A list was cached, then two handler runs began and both are suspended.
C13_TwoOverlappingRuns ==
  /\ Len(runs) = 2
  /\ runs[1].pc = "rebuildTests"
  /\ runs[2].pc = "rebuildTests"
  /\ Len(queries) >= 1
  /\ NoQuerySince(1)

InNamespace(key) == key[1] = "mesonbuild"

IsBuildFolder(key) == key = <<"mesonbuild", "buildFolder">>

\* C14: a configuration change that affects the build folder requests a
\* reload and runs no invalidation; one that affects another setting of the
\* extension runs the invalidation and requests no reload; one outside the
\* extension's namespace does neither.
C14_ConfigurationChangeEffects ==
  /\ watchReloads <= Len(configLog)
  /\ \A n \in 1..Len(configLog) :
       LET entry == configLog[n]
       IN IF \E key \in entry.keys : IsBuildFolder(key)
          THEN entry.reloaded /\ ~entry.ran
          ELSE IF \E key \in entry.keys : InNamespace(key)
          THEN entry.ran /\ ~entry.reloaded
          ELSE ~entry.ran /\ ~entry.reloaded

\* One event reports the build folder together with another setting of the
\* extension: the reload is requested and the handler is not run.
C14_BuildFolderAmongOtherSettings ==
  /\ Len(configLog) = 1
  /\ configLog[1].keys = {<<"mesonbuild", "buildFolder">>, <<"mesonbuild", "configureOnOpen">>}
  /\ watchReloads = 1
  /\ runs = <<>>

\* C18: between two consecutive invalidations getMesonTasks is started at
\* most once, and all provider queries in between receive its result.
C18_OneComputationPerInvalidation ==
  /\ \A a, b \in 1..Len(computations) : computations[a] = computations[b] => a = b
  /\ \A p, q \in 1..Len(queries) :
       queries[p].epoch = queries[q].epoch => queries[p].got = queries[q].got

\* Two queries after an invalidation share the one computation it caused.
C18_TwoQueriesAfterInvalidation ==
  /\ Len(runs) = 1
  /\ Len(queries) = 3
  /\ queries[1].epoch = 0
  /\ queries[2].epoch = 1
  /\ queries[3].epoch = 1
  /\ queries[2].got = queries[3].got
  /\ Len(computations) = 2

\* ============================================================================
\* Claims about the hasProject context key (SpecProject)
\* ============================================================================

AllSearchesDone == \A i \in 1..Len(searches) : searches[i].pc = "done"

\* C17: once every recomputation has completed, hasProject tells whether at
\* least one meson.build file exists, in whatever order the searches of
\* overlapping recomputations finished.
C17_HasProjectMatchesFiles ==
  AllSearchesDone => hasProject = HasProjectValue(projectFiles)

\* ============================================================================
\* Claims about the task commands (SpecCommands)
\* ============================================================================

\* C15: when the picker of an invocation without a name has been dismissed,
\* while loading or with its items displayed, pickAndRunTask ends once
\* getTasks has settled, and no task is run.
C15_DismissEndsWithNoAction ==
  \A i \in 1..Len(cmds) :
    cmds[i].picker = "hidden" /\ cmds[i].op # "loading" =>
      cmds[i].op = "finished" /\ cmds[i].task = "none"

\* C16: when the task run by a command fails, the command's invocation ends
\* in failure towards the host.
C16_TaskFailureFailsTheCommand ==
  \A i \in 1..Len(cmds) : cmds[i].task = "failed" => cmds[i].host = "rejected"

================================================================================
